---------------------------- MODULE Spec2Model ----------------------------
(***************************************************************************)
(* A model of rd_clip_sample.py: CLIP guided sampling from a diffusion     *)
(* model.  The module holds four state machines over one set of variables: *)
(*   SpecParse  parse_prompts applied to every short input string          *)
(*   SpecRun    run() applied to every short schedule / init combination   *)
(*   SpecCond   clip_cond_fn applied to every small pair of target sets    *)
(*   SpecMain   main(): loading, target collection, the batch driver       *)
(*              run_all and the top-level except KeyboardInterrupt         *)
(* Strings are sequences of one-character strings.  Python's None is the   *)
(* value None below, which no string of the model equals.                  *)
(***************************************************************************)
EXTENDS Integers, Sequences, FiniteSets, TLC

VARIABLES
    prompts,      \* SpecParse: the argument of parse_prompts
    parsed,       \* SpecParse: its outcome (result or exception)
    args,         \* the argparse namespace (prompt, target_img, init, n, ...)
    steps,        \* what utils.get_ddpm_schedule(...) returns (the full schedule)
    handed,       \* what run() last passed to sampling.sample_loop
    pc,           \* main's position
    exc,          \* the exception that ended main, and where it was raised
    exit,         \* "running", "normal" or "failure"
    caught,       \* how often the except clause of main ran
    calls,        \* how often each collaborator has been called
    target_embeds, target_w, target_img_embeds, target_img_w,
    init,         \* main's local variable init (the loaded init image)
    target_prompts, target_img_prompts,
    key,          \* main's and run_all's local variable key
    keylog,       \* every key consumed so far, in order, with the consumer
    i, j, outs,   \* run_all's loop variables
    requested,    \* the batch sizes run_all has asked run() for
    saved,        \* the file names written so far, in order
    cond          \* SpecCond: the call of clip_cond_fn and its outcome

parseVars == <<prompts, parsed>>
runVars == <<args, steps, handed>>
targetVars == <<target_embeds, target_w, target_img_embeds, target_img_w>>
mainVars == <<pc, exc, exit, caught, calls, init, target_prompts,
              target_img_prompts, key, keylog, i, j, outs, requested, saved>>
condVars == <<cond>>
vars == <<parseVars, runVars, targetVars, mainVars, condVars>>

----------------------------------------------------------------------------
(* Bounds of the model *)

MaxLen == 5        \* longest input string of SpecParse
MaxSteps == 3      \* longest full schedule
MaxTime == 4       \* timesteps and the starting timestep are in 0..MaxTime(+1)
MaxN == 4          \* largest args.n
MaxB == 3          \* largest args.batch_size
MaxTargets == 1    \* most targets per kind in SpecCond
MaxBatch == 2      \* largest latent batch in SpecCond

----------------------------------------------------------------------------
(* Python values *)

None == <<"None">>
PyStr(s) == [type |-> "str", val |-> s]
PyList(l) == [type |-> "list", val |-> l]
PyInt(v) == [type |-> "int", val |-> v]

Alphabet == {"a", " ", "|", ":", "2"}

RECURSIVE StringsUpTo(_)
StringsUpTo(n) ==
    IF n = 0 THEN {<<>>}
    ELSE LET shorter == StringsUpTo(n - 1)
         IN  shorter \cup {Append(s, c) : s \in {t \in shorter : Len(t) = n - 1},
                                          c \in Alphabet}

\* The least index of character d in s, or 0.
RECURSIVE Find(_, _, _)
Find(s, d, from) ==
    IF from > Len(s) THEN 0
    ELSE IF s[from] = d THEN from
    ELSE Find(s, d, from + 1)

\* str.split(d) for a one-character separator: empty pieces are kept.
RECURSIVE Split(_, _)
Split(s, d) ==
    LET k == Find(s, d, 1)
    IN  IF k = 0 THEN <<s>>
        ELSE <<SubSeq(s, 1, k - 1)>> \o Split(SubSeq(s, k + 1, Len(s)), d)

\* str.lstrip(' ') and str.rstrip(' ')
RECURSIVE LStrip(_)
LStrip(s) ==
    IF s # <<>> /\ Head(s) = " " THEN LStrip(Tail(s)) ELSE s

RECURSIVE RStrip(_)
RStrip(s) ==
    IF s # <<>> /\ s[Len(s)] = " " THEN RStrip(SubSeq(s, 1, Len(s) - 1)) ELSE s

Digits == {"2"}
DigitValue(c) == 2

RECURSIVE Decimal(_)
Decimal(s) ==
    IF s = <<>> THEN 0
    ELSE 10 * Decimal(SubSeq(s, 1, Len(s) - 1)) + DigitValue(s[Len(s)])

\* The strings of the alphabet that float() accepts: float() ignores
\* surrounding whitespace and then wants a number.  Over this alphabet a
\* number is a non-empty run of digits (no sign, point, exponent, "nan" or
\* "inf" can be spelled).
IsNumeric(s) ==
    LET core == RStrip(LStrip(s))
    IN  core # <<>> /\ \A k \in 1..Len(core) : core[k] \in Digits

PyFloatLenient(w) ==
    IF w.type = "int" THEN [ok |-> TRUE, val |-> w.val]
    ELSE IF IsNumeric(w.val) THEN [ok |-> TRUE, val |-> Decimal(RStrip(LStrip(w.val)))]
    ELSE [ok |-> TRUE, val |-> 1]

\* float(w): of an int the same number, of a string its value or ValueError.
PyFloat(w) ==
    IF w.type = "int" THEN [ok |-> TRUE, val |-> w.val]
    ELSE IF IsNumeric(w.val) THEN [ok |-> TRUE, val |-> Decimal(RStrip(LStrip(w.val)))]
    ELSE [ok |-> FALSE, val |-> 0]

----------------------------------------------------------------------------
(* parse_prompts *)

Returned(p, w) == [kind |-> "ok", p |-> p, w |-> w]
Raised(e) == [kind |-> e, p |-> <<>>, w |-> <<>>]
Pending == [kind |-> "pending", p |-> <<>>, w |-> <<>>]

\* Lines 44-49: the (p, w) a segment is taken apart into.
SegmentPW(segment) ==
    LET prompt == Split(segment, ":")
    IN  IF Len(prompt) = 2
        THEN [p |-> PyStr(prompt[1]), w |-> PyStr(prompt[2])]
        ELSE [p |-> PyList(prompt), w |-> PyInt(1)]

\* Lines 43-51: the loop over the segments from the k-th on; target_p and
\* target_w are the lists built so far.  p.lstrip exists for a str only.
RECURSIVE ParseLoop(_, _, _, _)
ParseLoop(splt, k, tp, tw) ==
    IF k > Len(splt) THEN Returned(tp, tw)
    ELSE LET pw == SegmentPW(splt[k])
         IN  IF pw.p.type # "str" THEN Raised("AttributeError")
             ELSE LET f == PyFloat(pw.w)
                  IN  IF ~f.ok THEN Raised("ValueError")
                      ELSE ParseLoop(splt, k + 1,
                                     Append(tp, RStrip(LStrip(pw.p.val))),
                                     Append(tw, f.val))

parse_prompts_always_loop(p) ==
    IF p = None THEN Raised("AttributeError")
    ELSE ParseLoop(Split(p, "|"), 1, <<>>, <<>>)

parse_prompts(p) ==
    IF p = None THEN Raised("AttributeError")   \* None has no split
    ELSE LET splt == Split(p, "|")
         IN  IF splt = <<p>> THEN Returned(<<p>>, <<1>>)
             ELSE ParseLoop(splt, 1, <<>>, <<>>)

----------------------------------------------------------------------------
(* Random keys.  A key is the path of splits that derived it from the seed: *)
(* jax.random.split is a function of the key, so splitting one key twice     *)
(* gives the same two keys twice.                                            *)

PRNGKey(seed) == <<seed>>
split(k) == <<Append(k, 0), Append(k, 1)>>

Consumed(op, k) == [op |-> op, key |-> k]

RECURSIVE SumSeq(_)
SumSeq(s) == IF s = <<>> THEN 0 ELSE Head(s) + SumSeq(Tail(s))

\* jax.random.normal(subkey, [n, ...]): n values that the key determines
\* (one value stands for the tensor of one batch entry).
Normal(k, n) == [b \in 1..n |-> ((SumSeq(k) + Len(k) + b) % 3) - 1]

----------------------------------------------------------------------------
(* The noise schedule.  Timesteps are counted in units of 1/MaxTime.        *)

\* utils.t_to_alpha_sigma(t): the clean-signal and noise proportions at t.
Alpha(t) == MaxTime - t
Sigma(t) == t

\* The strictly descending sequences over 0..MaxTime of at most MaxSteps
\* entries: what utils.get_ddpm_schedule returns for a descending linspace.
Schedules ==
    {s \in UNION {[1..l -> 0..MaxTime] : l \in 0..MaxSteps} :
        \A a \in 1..Len(s) - 1 : s[a] > s[a + 1]}

\* Line 180: steps[steps < args.starting_timestep]
BelowAll(s, f) == SelectSeq(s, LAMBDA t : t <= f)
Below(s, f) == SelectSeq(s, LAMBDA t : t < f)

\* Line 181: the timestep whose (alpha, sigma) mix the init image and the noise
StartOf(full, trunc) == trunc[1]

NotHanded == [kind |-> "none", key |-> <<>>, noise |-> <<>>, steps |-> <<>>,
              drawn |-> <<>>, consumed |-> <<>>]

\* Lines 168-183: run(key, n).  An empty truncated schedule has no steps[0]:
\* indexing it raises IndexError, and sample_loop is not reached.
run(k, n) ==
    LET s1 == split(k)
        noise == Normal(s1[2], n)
        s2 == split(s1[1])
        subkey == s2[2]
        used == <<Consumed("split", k), Consumed("normal", s1[2]),
                  Consumed("split", s1[1])>>
    IN  IF args.init # None
        THEN LET trunc == Below(steps, args.starting_timestep)
             IN  IF trunc = <<>>
                 THEN [kind |-> "IndexError", key |-> <<>>, noise |-> <<>>,
                       steps |-> <<>>, drawn |-> noise, consumed |-> used]
                 ELSE LET t0 == StartOf(steps, trunc)
                      IN  [kind |-> "ok", key |-> subkey,
                           noise |-> [b \in 1..n |->
                                        init * Alpha(t0) + noise[b] * Sigma(t0)],
                           steps |-> trunc, drawn |-> noise,
                           consumed |-> Append(used, Consumed("sample_loop", subkey))]
        ELSE [kind |-> "ok", key |-> subkey, noise |-> noise, steps |-> steps,
              drawn |-> noise,
              consumed |-> Append(used, Consumed("sample_loop", subkey))]

\* utils.from_pil_image(Image.open(path)...): the pixels the file holds
ImagePixels(path) == IF path = <<"a">> THEN 1 ELSE 2

----------------------------------------------------------------------------
(* The guidance gradient, lines 142-166 *)

DefaultGuidanceScale == 1000

\* text_fn(clip_params, tokenize([prompt])) and image_fn(clip_params, image):
\* the embedding model's answer, a number standing for the vector.
TextEmbed(prompt) == Len(prompt)
ImageEmbed(path) == Len(path) + 1

Min(a, b) == IF a < b THEN a ELSE b

\* zip(a, b)
Zip(a, b) == [k \in 1..Min(Len(a), Len(b)) |-> [embed |-> a[k], w |-> b[k]]]

\* Lines 157-160: the terms total_loss is the sum of
LossTerms ==
    Zip(target_embeds, target_w) \o Zip(target_img_embeds, target_img_w)

\* The derivative of one term jnp.sum(spherical_dist_loss(image_embeds, e))
\* with respect to one batch entry x of the latent, as reverse-mode
\* differentiation through lines 144-155 gives it (a stand-in: the models
\* are collaborators).
DTerm(x, e) == x - e

RECURSIVE DSum(_, _)
DSum(terms, x) ==
    IF terms = <<>> THEN 0
    ELSE Head(terms).w * DTerm(x, Head(terms).embed) + DSum(Tail(terms), x)

\* Lines 142-161: total_loss starts as the Python int 0 and becomes a float
\* array with the first term added.  dx is its derivative in x.
clip_cond_fn_loss(x) ==
    [dtype |-> IF LossTerms = <<>> THEN "int" ELSE "float",
     dx |-> [b \in 1..Len(x) |-> DSum(LossTerms, x[b])]]

\* jax.grad(f)(x): raises TypeError unless f's output is a floating-point
\* scalar ("grad requires real-valued outputs ... but got int32").
jax_grad(x) ==
    LET loss == clip_cond_fn_loss(x)
    IN  IF loss.dtype # "float"
        THEN [kind |-> "TypeError", val |-> <<>>]
        ELSE [kind |-> "ok", val |-> loss.dx]

\* Lines 163-166
clip_cond_fn(x) ==
    LET grad == jax_grad(x)
    IN  IF grad.kind # "ok" THEN grad
        ELSE [kind |-> "ok",
              val |-> [b \in 1..Len(x) |-> grad.val[b] * (-args.clip_guidance_scale)]]

----------------------------------------------------------------------------
(* main *)

ZeroCalls ==
    [f \in {"get_model", "load_params", "clip_load", "parse_text", "parse_img",
            "text_fn", "image_open", "image_fn", "init_open", "sample_loop",
            "save"} |-> 0]

Called(f) == [calls EXCEPT ![f] = @ + 1]

NoExc == [kind |-> "none", at |-> "none"]

\* The positions inside the try statement of lines 193-196
TryPcs == {"run_all", "sampling", "save"}

CaughtAnything(kind, at) == at \in TryPcs

\* Lines 193-196: what the except clause catches
Caught(kind, at) == kind = "KeyboardInterrupt" /\ at \in TryPcs

\* An exception of this kind raised at this position ends main.
Raise(kind, at) ==
    /\ exc' = [kind |-> kind, at |-> at]
    /\ pc' = "done"
    /\ IF Caught(kind, at)
       THEN exit' = "normal" /\ caught' = caught + 1
       ELSE exit' = "failure" /\ caught' = caught

Goto(p) == pc' = p /\ UNCHANGED <<exc, exit, caught>>

DigitChars == <<"0", "1", "2", "3", "4", "5", "6", "7", "8", "9">>

RECURSIVE DecimalDigits(_)
DecimalDigits(v) ==
    IF v < 10 THEN <<DigitChars[v + 1]>>
    ELSE Append(DecimalDigits(v \div 10), DigitChars[(v % 10) + 1])

RECURSIVE ZeroPad(_, _)
ZeroPad(s, width) == IF Len(s) >= width THEN s ELSE ZeroPad(<<"0">> \o s, width)

\* Line 191: f'out_{index:05}.png'
FileName(index) ==
    <<"o", "u", "t", "_">> \o ZeroPad(DecimalDigits(index), 5)
        \o <<".", "p", "n", "g">>

CurBatchSizeNoMin(n, at, batch_size) == batch_size
\* Line 188
CurBatchSize(n, at, batch_size) == Min(n - at, batch_size)

outside == <<parseVars, condVars, args, steps>>

\* Line 105
GetModel ==
    /\ pc = "get_model"
    /\ calls' = Called("get_model")
    /\ Goto("load_params")
    /\ UNCHANGED <<outside, handed, targetVars, init, target_prompts,
                   target_img_prompts, key, keylog, i, j, outs, requested, saved>>

\* Lines 106-109
LoadParams ==
    /\ pc = "load_params"
    /\ calls' = Called("load_params")
    /\ Goto("clip_load")
    /\ UNCHANGED <<outside, handed, targetVars, init, target_prompts,
                   target_img_prompts, key, keylog, i, j, outs, requested, saved>>

\* Lines 111-118
ClipLoad ==
    /\ pc = "clip_load"
    /\ calls' = Called("clip_load")
    /\ target_embeds' = <<>>
    /\ target_w' = <<>>
    /\ Goto("text")
    /\ UNCHANGED <<outside, handed, target_img_embeds, target_img_w, init,
                   target_prompts, target_img_prompts, key, keylog, i, j, outs,
                   requested, saved>>

\* Lines 120-121
TextParse ==
    /\ pc = "text"
    /\ IF args.prompt = <<>>
       THEN /\ Goto("init")
            /\ UNCHANGED <<calls, target_prompts, target_w>>
       ELSE LET r == parse_prompts(args.prompt)
            IN  /\ calls' = Called("parse_text")
                /\ IF r.kind = "ok"
                   THEN /\ target_prompts' = r.p
                        /\ target_w' = r.w
                        /\ Goto("text_embed")
                   ELSE /\ Raise(r.kind, "text")
                        /\ UNCHANGED <<target_prompts, target_w>>
    /\ UNCHANGED <<outside, handed, target_embeds, target_img_embeds,
                   target_img_w, init, target_img_prompts, key, keylog, i, j,
                   outs, requested, saved>>

\* Lines 122-123, one prompt
TextEmbedOne ==
    /\ pc = "text_embed"
    /\ LET prompt == target_prompts[Len(target_embeds) + 1]
       IN  target_embeds' = Append(target_embeds, TextEmbed(prompt))
    /\ calls' = Called("text_fn")
    /\ Goto(IF Len(target_embeds) + 1 < Len(target_prompts)
            THEN "text_embed" ELSE "init")
    /\ UNCHANGED <<outside, handed, target_w, target_img_embeds, target_img_w,
                   init, target_prompts, target_img_prompts, key, keylog, i, j,
                   outs, requested, saved>>

\* Lines 125-128
LoadInit ==
    /\ pc = "init"
    /\ IF args.init # None
       THEN init' = ImagePixels(args.init) /\ calls' = Called("init_open")
       ELSE UNCHANGED <<init, calls>>
    /\ Goto("prng")
    /\ UNCHANGED <<outside, handed, targetVars, target_prompts,
                   target_img_prompts, key, keylog, i, j, outs, requested, saved>>

\* Lines 130-133
MakeKey ==
    /\ pc = "prng"
    /\ key' = PRNGKey(args.seed)
    /\ target_img_w' = <<>>
    /\ target_img_embeds' = <<>>
    /\ Goto("img")
    /\ UNCHANGED <<outside, handed, target_embeds, target_w, calls, init,
                   target_prompts, target_img_prompts, keylog, i, j, outs,
                   requested, saved>>

\* Lines 135-136: args.target_img is None when the flag is not given, and
\* None != "" holds.
ImgParse ==
    /\ pc = "img"
    /\ IF args.target_img = <<>>
       THEN /\ Goto("run_all")
            /\ UNCHANGED <<calls, target_img_prompts, target_img_w>>
       ELSE LET r == parse_prompts(args.target_img)
            IN  /\ calls' = Called("parse_img")
                /\ IF r.kind = "ok"
                   THEN /\ target_img_prompts' = r.p
                        /\ target_img_w' = r.w
                        /\ Goto("img_embed")
                   ELSE /\ Raise(r.kind, "img")
                        /\ UNCHANGED <<target_img_prompts, target_img_w>>
    /\ UNCHANGED <<outside, handed, target_embeds, target_w, target_img_embeds,
                   init, target_prompts, key, keylog, i, j, outs, requested,
                   saved>>

\* Lines 137-140, one image
ImgEmbedOne ==
    /\ pc = "img_embed"
    /\ LET img_prompt == target_img_prompts[Len(target_img_embeds) + 1]
       IN  target_img_embeds' = Append(target_img_embeds, ImageEmbed(img_prompt))
    /\ calls' = [calls EXCEPT !["image_open"] = @ + 1, !["image_fn"] = @ + 1]
    /\ Goto(IF Len(target_img_embeds) + 1 < Len(target_img_prompts)
            THEN "img_embed" ELSE "run_all")
    /\ UNCHANGED <<outside, handed, target_embeds, target_w, target_img_w,
                   init, target_prompts, target_img_prompts, key, keylog, i, j,
                   outs, requested, saved>>

\* Lines 186-189 and run() up to its call of sampling.sample_loop
BatchStart ==
    /\ pc = "run_all"
    /\ i < args.n
    /\ LET s == split(key)
           cur_batch_size == CurBatchSize(args.n, i, args.batch_size)
           r == run(s[1], cur_batch_size)
       IN  /\ key' = s[1]
           /\ keylog' = keylog \o <<Consumed("split", key)>> \o r.consumed
           /\ requested' = Append(requested, cur_batch_size)
           /\ handed' = r
           /\ IF r.kind = "ok"
              THEN calls' = Called("sample_loop") /\ Goto("sampling")
              ELSE UNCHANGED calls /\ Raise(r.kind, "run_all")
    /\ UNCHANGED <<outside, targetVars, init, target_prompts,
                   target_img_prompts, i, j, outs, saved>>

\* Lines 183 and 189: sample_loop returns one image per entry of the latent
SampleReturn ==
    /\ pc = "sampling"
    /\ outs' = Len(handed.noise)
    /\ j' = 0
    /\ IF Len(handed.noise) > 0
       THEN Goto("save") /\ UNCHANGED i
       ELSE Goto("run_all") /\ i' = i + args.batch_size
    /\ UNCHANGED <<outside, handed, targetVars, calls, init, target_prompts,
                   target_img_prompts, key, keylog, requested, saved>>

\* Lines 190-191, one image; after the last one the range gives the next i
SaveImage ==
    /\ pc = "save"
    /\ saved' = Append(saved, FileName(i + j))
    /\ calls' = Called("save")
    /\ j' = j + 1
    /\ IF j + 1 < outs
       THEN Goto("save") /\ UNCHANGED i
       ELSE Goto("run_all") /\ i' = i + args.batch_size
    /\ UNCHANGED <<outside, handed, targetVars, init, target_prompts,
                   target_img_prompts, key, keylog, outs, requested>>

\* Lines 186 and 194: the range is exhausted, run_all and main return
LoopExit ==
    /\ pc = "run_all"
    /\ i >= args.n
    /\ pc' = "done"
    /\ exit' = "normal"
    /\ UNCHANGED <<outside, handed, targetVars, exc, caught, calls, init,
                   target_prompts, target_img_prompts, key, keylog, i, j, outs,
                   requested, saved>>

\* The user interrupts main where it stands.
Interrupt ==
    /\ pc # "done"
    /\ exit = "running"
    /\ Raise("KeyboardInterrupt", pc)
    /\ UNCHANGED <<outside, handed, targetVars, calls, init, target_prompts,
                   target_img_prompts, key, keylog, i, j, outs, requested, saved>>

\* A collaborator (a model, the sampler, image I/O) raises where main stands.
CollaboratorError ==
    /\ pc # "done"
    /\ exit = "running"
    /\ Raise("Error", pc)
    /\ UNCHANGED <<outside, handed, targetVars, calls, init, target_prompts,
                   target_img_prompts, key, keylog, i, j, outs, requested, saved>>

----------------------------------------------------------------------------
(* Initial states and specifications *)

NoCond == [x |-> <<>>, out |-> [kind |-> "none", val |-> <<>>]]

Args(prompt, target_img, init_path, n, batch_size, starting_timestep, seed) ==
    [prompt |-> prompt, target_img |-> target_img, init |-> init_path, n |-> n,
     batch_size |-> batch_size, starting_timestep |-> starting_timestep,
     seed |-> seed, clip_guidance_scale |-> DefaultGuidanceScale]

IdleParse == prompts = <<>> /\ parsed = Pending

IdleTargets ==
    /\ target_embeds = <<>>
    /\ target_w = <<>>
    /\ target_img_embeds = <<>>
    /\ target_img_w = <<>>

\* main's locals before main has assigned them
MainAt(p) ==
    /\ pc = p
    /\ exc = NoExc
    /\ exit = "running"
    /\ caught = 0
    /\ calls = ZeroCalls
    /\ target_prompts = <<>>
    /\ target_img_prompts = <<>>
    /\ keylog = <<>>
    /\ i = 0
    /\ j = 0
    /\ outs = 0
    /\ requested = <<>>
    /\ saved = <<>>

(* parse_prompts on every string of at most MaxLen characters *)

InitParse ==
    /\ prompts \in StringsUpTo(MaxLen)
    /\ parsed = Pending
    /\ args = Args(<<>>, <<>>, None, 0, 1, 0, 0)
    /\ steps = <<>>
    /\ handed = NotHanded
    /\ IdleTargets
    /\ MainAt("parse_prompts")
    /\ init = 0
    /\ key = <<>>
    /\ cond = NoCond

ParseCall ==
    /\ pc = "parse_prompts"
    /\ parsed.kind = "pending"
    /\ parsed' = parse_prompts(prompts)
    /\ UNCHANGED <<prompts, runVars, targetVars, mainVars, condVars>>

NextParse == ParseCall

SpecParse == InitParse /\ [][NextParse]_vars

(* run() on every schedule, with and without an init image *)

InitRun ==
    /\ IdleParse
    /\ \E init_path \in {None, <<"a">>, <<"2">>}, n \in 1..MaxBatch,
          f \in 0..MaxTime + 1, seed \in 0..1 :
          /\ args = Args(<<>>, <<>>, init_path, n, n, f, seed)
          /\ init = IF init_path # None THEN ImagePixels(init_path) ELSE 0
          /\ key = PRNGKey(seed)
    /\ steps \in Schedules
    /\ handed = NotHanded
    /\ IdleTargets
    /\ MainAt("run")
    /\ cond = NoCond

RunCall ==
    /\ pc = "run"
    /\ handed.kind = "none"
    /\ handed' = run(key, args.n)
    /\ UNCHANGED <<parseVars, args, steps, targetVars, mainVars, condVars>>

NextRun == RunCall

SpecRun == InitRun /\ [][NextRun]_vars

(* clip_cond_fn on every small pair of target sets *)

SeqsUpTo(S, n) == UNION {[1..l -> S] : l \in 0..n}

InitCond ==
    /\ IdleParse
    /\ args = Args(<<>>, <<>>, None, 1, 1, 0, 0)
    /\ steps = <<>>
    /\ handed = NotHanded
    /\ target_embeds \in SeqsUpTo({0, 1}, MaxTargets)
    /\ target_w \in {w \in SeqsUpTo({1, 2}, MaxTargets) : Len(w) = Len(target_embeds)}
    /\ target_img_embeds \in SeqsUpTo({0, 1}, MaxTargets)
    /\ target_img_w \in {w \in SeqsUpTo({1, 2}, MaxTargets) :
                            Len(w) = Len(target_img_embeds)}
    /\ MainAt("clip_cond_fn")
    /\ init = 0
    /\ key = <<>>
    /\ \E x \in SeqsUpTo({-1, 0, 1}, MaxBatch) :
          x # <<>> /\ cond = [x |-> x, out |-> [kind |-> "none", val |-> <<>>]]

CondCall ==
    /\ pc = "clip_cond_fn"
    /\ cond.out.kind = "none"
    /\ cond' = [cond EXCEPT !.out = clip_cond_fn(cond.x)]
    /\ UNCHANGED <<parseVars, runVars, targetVars, mainVars>>

NextCond == CondCall

SpecCond == InitCond /\ [][NextCond]_vars

(* main *)

PromptChoices ==
    {<<>>, <<"a">>, <<"a", ":", "2", "|", " ", "a", ":", "2">>,
     <<"a", ":", "a", "|", "a", ":", "2">>}

TargetImgChoices ==
    {None, <<>>, <<"a", ":", "2", "|", "2", ":", "2">>,
     <<"a", ":", "a", "|", "a", ":", "2">>}

MainSchedule == <<MaxTime, 2, 1>>

InitMain ==
    /\ IdleParse
    /\ \E prompt \in PromptChoices, target_img \in TargetImgChoices,
          init_path \in {None, <<"a">>}, n \in 0..MaxN, batch_size \in 1..MaxB,
          f \in {0, 3} :
          /\ init_path = None => f = 3
          /\ args = Args(prompt, target_img, init_path, n, batch_size, f, 0)
    /\ steps = MainSchedule
    /\ handed = NotHanded
    /\ IdleTargets
    /\ MainAt("get_model")
    /\ init = 0
    /\ key = <<>>
    /\ cond = NoCond

NextMain ==
    \/ GetModel
    \/ LoadParams
    \/ ClipLoad
    \/ TextParse
    \/ TextEmbedOne
    \/ LoadInit
    \/ MakeKey
    \/ ImgParse
    \/ ImgEmbedOne
    \/ BatchStart
    \/ SampleReturn
    \/ SaveImage
    \/ LoopExit
    \/ Interrupt
    \/ CollaboratorError

SpecMain == InitMain /\ [][NextMain]_vars

----------------------------------------------------------------------------
(* Properties of parse_prompts (SpecParse) *)

Parsed == parsed.kind # "pending"
HasDelimiter(s) == \E k \in 1..Len(s) : s[k] = "|"
Segments(s) == Split(s, "|")

\* A segment with a ':'-separated weight suffix that is not a number
BadWeight(segment) ==
    LET parts == Split(segment, ":")
    IN  Len(parts) = 2 /\ ~IsNumeric(parts[2])

\* What the specification wants of one segment: the stripped text, and the
\* weight given or 1.
WantedText(segment) == RStrip(LStrip(Split(segment, ":")[1]))
WantedWeight(segment) ==
    LET parts == Split(segment, ":")
    IN  IF Len(parts) = 2 THEN Decimal(RStrip(LStrip(parts[2]))) ELSE 1

\* C3: an input with '|' whose segments each hold at most one ':' and only
\* numeric weights is parsed into one (text, weight) entry per segment, in
\* order, the text stripped of spaces and the weight 1 where none is given.
CE_C3_SegmentsParsed ==
    (/\ Parsed
     /\ HasDelimiter(prompts)
     /\ \A k \in 1..Len(Segments(prompts)) :
           /\ Len(Split(Segments(prompts)[k], ":")) <= 2
           /\ ~BadWeight(Segments(prompts)[k]))
    => /\ parsed.kind = "ok"
       /\ parsed.p = [k \in 1..Len(Segments(prompts)) |->
                        WantedText(Segments(prompts)[k])]
       /\ parsed.w = [k \in 1..Len(Segments(prompts)) |->
                        WantedWeight(Segments(prompts)[k])]

ParsesUpTo(s, k) ==
    \A m \in 1..k - 1 :
        Len(Split(Segments(s)[m], ":")) = 2 /\ ~BadWeight(Segments(s)[m])

T_C5_NoDelimiterOnePrompt ==
    (Parsed /\ ~HasDelimiter(prompts))
    => /\ parsed.kind = "ok"
       /\ Len(parsed.p) = 1 /\ Len(parsed.w) = 1
       /\ parsed.p[1] = prompts
       /\ parsed.w[1] = 1

W_C5_UnstrippedWithColon ==
    /\ Parsed
    /\ ~HasDelimiter(prompts)
    /\ Len(prompts) >= 3
    /\ prompts[1] = " "
    /\ \E k \in 1..Len(prompts) : prompts[k] = ":"
    /\ parsed.kind = "ok"

----------------------------------------------------------------------------
(* Properties of run (SpecRun) *)

Entries(s) == {s[a] : a \in DOMAIN s}

\* C7: with an init image, sample_loop gets exactly the entries of the full
\* schedule below the starting timestep, in their order, and the latent
\* init*alpha + noise*sigma at the first of them; without one it gets the
\* full schedule and the noise as drawn.
T_C7_TruncatedSchedule ==
    handed.kind = "ok" =>
        LET h == handed.steps
            noise == Normal(split(key)[2], args.n)
        IN  IF args.init # None
            THEN /\ Entries(h) = {t \in Entries(steps) : t < args.starting_timestep}
                 /\ Len(h) = Cardinality(Entries(h))
                 /\ \A a, b \in DOMAIN h :
                       a < b => Find(steps, h[a], 1) < Find(steps, h[b], 1)
                 /\ handed.noise =
                       [b \in 1..args.n |->
                           init * Alpha(h[1]) + noise[b] * Sigma(h[1])]
            ELSE handed.steps = steps /\ handed.noise = noise

W_C7_Truncated ==
    /\ handed.kind = "ok"
    /\ args.init # None
    /\ Len(handed.steps) >= 2
    /\ Len(handed.steps) < Len(steps)
    /\ args.starting_timestep \in Entries(steps)

----------------------------------------------------------------------------
(* Properties of clip_cond_fn (SpecCond) *)

\* C10: with both target embedding sets empty, clip_cond_fn returns the zero
\* tensor of the latent's shape.
CE_C10_ZeroGradient ==
    (cond.out.kind # "none" /\ target_embeds = <<>> /\ target_img_embeds = <<>>)
    => /\ cond.out.kind = "ok"
       /\ cond.out.val = [b \in 1..Len(cond.x) |-> 0]

----------------------------------------------------------------------------
(* Properties of main and run_all (SpecMain) *)

\* C1: no key is consumed (split, or used for a draw or by the sampler) twice.
CE_C1_NoKeyReuse ==
    \A a, b \in 1..Len(keylog) : a # b => keylog[a].key # keylog[b].key

\* out_0000k.png, for k < 10
ExpectedName(k) ==
    <<"o", "u", "t", "_", "0", "0", "0", "0", DigitChars[k + 1], ".", "p", "n", "g">>

C2_Batches ==
    \A m \in 1..Len(requested) :
        requested[m] = Min(args.batch_size,
                           args.n - SumSeq(SubSeq(requested, 1, m - 1)))

C2_Saved ==
    /\ Len(saved) <= args.n
    /\ saved = [k \in 1..Len(saved) |-> ExpectedName(k - 1)]

C2_Complete ==
    (exit = "normal" /\ exc.kind = "none")
    => /\ Len(saved) = args.n
       /\ SumSeq(requested) = args.n

\* The steps of run_all
RunAllStep == BatchStart \/ SampleReturn \/ SaveImage \/ LoopExit

\* What run_all has left to do: three steps per image not yet saved
\* (the batch's start, the sampler's return, the save), less those of
\* the current batch already done.
Remaining ==
    3 * (args.n - Len(saved))
        + (CASE pc = "run_all" -> 2 [] pc = "sampling" -> 1 [] OTHER -> 0)

C2_Terminates ==
    /\ Remaining >= 0
    /\ (pc \in TryPcs) => ENABLED RunAllStep

C2_Progress == (pc \in TryPcs /\ pc' \in TryPcs) => Remaining' < Remaining

\* C2: run_all ends (it always has a next step until it returns, and each
\* step brings it nearer to the end); each batch it asks for has
\* min(B, N - produced) images; the images are saved under 0, 1, 2, ... in
\* this order, once each; and on normal completion exactly N are saved.
T_C2_BatchesAndFiles ==
    /\ [](C2_Batches /\ C2_Saved /\ C2_Complete /\ C2_Terminates)
    /\ [][C2_Progress]_vars

W_C2_PartialLastBatch ==
    /\ exit = "normal"
    /\ exc.kind = "none"
    /\ args.n > args.batch_size
    /\ args.n % args.batch_size # 0
    /\ Len(saved) = args.n
    /\ Len(requested) >= 2

C6_Outcome ==
    /\ (exc.kind = "KeyboardInterrupt" /\ exc.at \in TryPcs)
       => (exit = "normal" /\ caught = 1)
    /\ (exc.kind # "none" /\ ~(exc.kind = "KeyboardInterrupt" /\ exc.at \in TryPcs))
       => (exit = "failure" /\ caught = 0)
    /\ exc.kind = "none" => caught = 0

C6_Step ==
    /\ (exc.kind = "none" /\ exc'.kind = "KeyboardInterrupt")
       => (saved' = saved /\ requested' = requested)
    /\ exit # "running"
       => (saved' = saved /\ requested' = requested /\ calls' = calls
           /\ exit' = exit)

\* C6: an interrupt inside the batch driver loop is caught once and ends
\* main normally, what was saved stays saved, no batch starts and no image
\* is saved afterwards; any other exception, and an interrupt elsewhere,
\* ends main in failure.
T_C6_InterruptRecovered == []C6_Outcome /\ [][C6_Step]_vars

W_C6_PartlySavedBatch ==
    /\ exc.kind = "KeyboardInterrupt"
    /\ exc.at = "save"
    /\ exit = "normal"
    /\ j >= 1
    /\ j < outs

\* C8: when parsing a prompt fails for a malformed weight, no model or
\* checkpoint has been loaded, nothing encoded and no sampling started.
CE_C8_ParseBeforeModelWork ==
    (exc.kind = "ValueError" /\ exc.at \in {"text", "img"})
    => /\ calls["get_model"] = 0
       /\ calls["load_params"] = 0
       /\ calls["clip_load"] = 0
       /\ calls["text_fn"] = 0
       /\ calls["image_fn"] = 0
       /\ calls["sample_loop"] = 0

\* The exceptions parse_prompts raises
ParseErrors == {"ValueError", "AttributeError"}

PastText == pc \notin {"get_model", "load_params", "clip_load", "text"}
PastImg == PastText /\ pc \notin {"text_embed", "init", "prng", "img"}

\* C9: a kind of target whose input is empty (or, for the image target, not
\* given) is not parsed, loaded or encoded, its lists stay empty, and main
\* goes on.
CE_C9_EmptyInputSkipped ==
    /\ (args.prompt = <<>> /\ PastText)
       => /\ calls["parse_text"] = 0 /\ calls["text_fn"] = 0
          /\ target_embeds = <<>> /\ target_w = <<>>
          /\ ~(exc.at = "text" /\ exc.kind \in ParseErrors)
    /\ (args.target_img \in {None, <<>>} /\ PastImg)
       => /\ calls["parse_img"] = 0 /\ calls["image_open"] = 0
          /\ calls["image_fn"] = 0
          /\ target_img_embeds = <<>> /\ target_img_w = <<>>
          /\ ~(exc.at = "img" /\ exc.kind \in ParseErrors)

=============================================================================
